---- MODULE Spec2Model ----
(***************************************************************************)
(* level-stream-access: byte streams stored as sequentially keyed chunks   *)
(* of an ordered key-value store (levelup).  The model follows the         *)
(* library file with metadata and prepend support (src/unnamed/part_001).  *)
(*                                                                         *)
(* Strings are sequences of character codes, so that the store's bytewise  *)
(* key order, the range bounds ' ', '/', ':' and the hexadecimal index     *)
(* arithmetic of prepend are computed, not assumed.                        *)
(*                                                                         *)
(* Every store request (get, put, batch, iterator.next, iterator.end) is   *)
(* asynchronous: one action issues it, a later action serves it and runs   *)
(* its callback up to the next request.                                    *)
(***************************************************************************)
EXTENDS Integers, Sequences, FiniteSets, TLC

VARIABLES
    db,      \* the store: a function from the keys present to their values
    now,     \* the wall clock, Date.now()
    serial,  \* TRUE when the caller issues one call at a time
    procs,   \* slot -> the stream object or API call occupying it
    hist     \* stream key -> what the caller has been told so far (history)

vars == <<db, now, serial, procs, hist>>

----------------------------------------------------------------------------
(* Bounds of the model                                                     *)

\* Non-empty buffers given to one write or store session
MaxBufs == 2
\* Clock ticks after the start of the run
MaxTicks == 1
\* Chunks a stream may hold when the caller issues one more prepend
MaxChunks == 3
\* Slots for stream objects and calls in flight
NSlots == 2
\* Prepends issued without waiting, after one session
MaxPrepends == 2

----------------------------------------------------------------------------
(* Characters and strings                                                  *)

Space == 32
Hash  == 35
Star  == 42
Minus == 45
Slash == 47
Colon == 58
\* the clock reading at the start of a run, 0x11: like a real clock reading,
\* its hexadecimal form starts with the digit 1
ClockStart == 17
\* SeqIndex.short(): the index is the clock reading followed by a counter
\* digit
SeqSpan == 16

\* the stream keys the caller uses ("k")
StreamKeys == {<<107>>}

\* the character of hexadecimal digit d ('0'..'9', 'a'..'f')
HexChar(d) == IF d < 10 THEN 48 + d ELSE 87 + d

IsHexChar(c) == (c >= 48 /\ c <= 57) \/ (c >= 97 /\ c <= 102)

HexVal(c) == IF c <= 57 THEN c - 48 ELSE c - 87

\* the store's key order: bytewise comparison
RECURSIVE LexLess(_, _)
LexLess(a, b) ==
    IF b = <<>> THEN FALSE
    ELSE IF a = <<>> THEN TRUE
    ELSE IF Head(a) # Head(b) THEN Head(a) < Head(b)
    ELSE LexLess(Tail(a), Tail(b))

\* Number.prototype.toString(16) of a non-negative integer
RECURSIVE NatToHex(_)
NatToHex(n) ==
    IF n < 16 THEN <<HexChar(n)>>
    ELSE Append(NatToHex(n \div 16), HexChar(n % 16))

\* a JavaScript number: an integer or NaN
Num(n) == [nan |-> FALSE, v |-> n]
NaN == [nan |-> TRUE, v |-> 0]

\* Number.prototype.toString(16)
ToString16(x) ==
    IF x.nan THEN <<78, 97, 78>>
    ELSE IF x.v < 0 THEN <<Minus>> \o NatToHex(0 - x.v)
    ELSE NatToHex(x.v)

\* the longest prefix of s made of hexadecimal digits
RECURSIVE HexPrefix(_)
HexPrefix(s) ==
    IF s = <<>> \/ ~IsHexChar(Head(s)) THEN <<>>
    ELSE <<Head(s)>> \o HexPrefix(Tail(s))

RECURSIVE HexToNat(_, _)
HexToNat(s, acc) ==
    IF s = <<>> THEN acc ELSE HexToNat(Tail(s), acc * 16 + HexVal(Head(s)))

\* s without a leading "0x" or "0X"
HexDigits(s) ==
    IF Len(s) >= 2 /\ s[1] = 48 /\ s[2] \in {88, 120}
    THEN SubSeq(s, 3, Len(s)) ELSE s

\* parseInt(s, 16) of a string without white space: an optional '-', an
\* optional "0x", and the value of the hexadecimal digits that follow; NaN
\* when there is none
ParseInt16(s) ==
    LET neg == s # <<>> /\ Head(s) = Minus
        ds  == HexPrefix(HexDigits(IF neg THEN Tail(s) ELSE s))
    IN  IF ds = <<>> THEN NaN
        ELSE Num(IF neg THEN 0 - HexToNat(ds, 0) ELSE HexToNat(ds, 0))

\* the position of the last space of s, 0 when it has none
RECURSIVE LastSpace(_, _)
LastSpace(s, i) ==
    IF i = 0 THEN 0
    ELSE IF s[i] = Space THEN i
    ELSE LastSpace(s, i - 1)

\* key.split(' ') followed by pop(): the part after the last space
SplitPop(s) == SubSeq(s, LastSpace(s, Len(s)) + 1, Len(s))

\* key.split(' '), pop(), join(' '): the part before the last space
SplitJoin(s) ==
    IF LastSpace(s, Len(s)) = 0 THEN <<>>
    ELSE SubSeq(s, 1, LastSpace(s, Len(s)) - 1)

----------------------------------------------------------------------------
(* The key scheme                                                          *)

\* the existence record of stream K, written by the first chunk write
SysKey(K) == K \o <<Space, Hash>>
\* the user metadata record of stream K
UserKey(K) == K \o <<Space, Star>>
\* a scan of streamDelete that starts above the metadata records
DeleteLowChunks(K) == K \o <<Space, Slash>>
\* lower bound of the scan of streamDelete
DeleteLow(K) == K \o <<Space>>
\* lower bound of the scans of the reader (default) and of prepend
ChunkLow(K) == K \o <<Space, Slash>>
\* upper bound of every scan
High(K) == K \o <<Space, Colon>>

----------------------------------------------------------------------------
(* The store                                                               *)

\* a chunk: the raw bytes of a buffer
Bin(b) == [enc |-> "bin", bytes |-> b, json |-> {}]

\* JSON.stringify of an object with scalar fields: its name/value pairs
JsonStringify(obj) == {<<f, obj[f]>> : f \in DOMAIN obj}

\* JSON.parse
JsonParse(text) ==
    [f \in {p[1] : p \in text} |-> (CHOOSE p \in text : p[1] = f)[2]]

\* a value stored with valueEncoding 'json'
Json(obj) == [enc |-> "json", bytes |-> <<>>, json |-> JsonStringify(obj)]

Has(store, k) == k \in DOMAIN store

\* a put that keeps the value of a key the store holds
PutIfAbsent(store, k, v) ==
    IF k \in DOMAIN store THEN store
    ELSE [x \in DOMAIN store \cup {k} |-> IF x = k THEN v ELSE store[x]]
\* db.put: the value of key k is v, whether the store held k or not
Put(store, k, v) ==
    [x \in DOMAIN store \cup {k} |-> IF x = k THEN v ELSE store[x]]

\* db.batch of 'del' operations, applied atomically
BatchDel(store, keys) ==
    [x \in DOMAIN store \ {keys[i] : i \in 1..Len(keys)} |-> store[x]]

\* the keys of the range (gt, lt), both bounds exclusive
RangeKeys(store, gt, lt) ==
    {k \in DOMAIN store : LexLess(gt, k) /\ LexLess(k, lt)}

RECURSIVE SortKeys(_)
SortKeys(S) ==
    IF S = {} THEN <<>>
    ELSE LET m == CHOOSE k \in S : \A j \in S \ {k} : LexLess(k, j)
         IN  <<m>> \o SortKeys(S \ {m})

\* an iterator over (gt, lt): it reads the snapshot of the store taken when
\* it is created, in ascending key order
Iterator(store, gt, lt) == SortKeys(RangeKeys(store, gt, lt))

\* the chunks of stream K a default read returns, in key order
Chunks(store, K) ==
    LET ks == Iterator(store, ChunkLow(K), High(K))
    IN  [i \in 1..Len(ks) |-> store[ks[i]].bytes]

----------------------------------------------------------------------------
(* Values the caller passes in                                             *)

Buf(b) == [t |-> "buffer", b |-> b]
Str(s) == [t |-> "string", b |-> s]
Other  == [t |-> "other", b |-> <<>>]

\* Buffer.from(string): the UTF-8 bytes of its characters
RECURSIVE Utf8(_)
Utf8(s) ==
    IF s = <<>> THEN <<>>
    ELSE (IF Head(s) < 128 THEN <<Head(s)>>
          ELSE <<192 + (Head(s) \div 64), 128 + (Head(s) % 64)>>)
         \o Utf8(Tail(s))

\* a buffer written to a write or store session: empty, or the i-th
\* non-empty one, which tells its position (the code reads of a buffer only
\* its length)
WriteInputs(i) == {<<>>, <<i>>}

\* values given to prepend: a buffer, the string "é", a number
PrependInputs == {Buf(<<1>>), Str(<<233>>), Other}

\* objects given to setMeta
MetaInputs == {[a |-> 1], [b |-> 2, created |-> 0]}

\* the startIndex option of a reader; <<>> when the option is absent
StartIndexes == {<<>>, NatToHex(ClockStart * SeqSpan)}

----------------------------------------------------------------------------
(* SeqIndex (package seq-index): a generator of sortable sequential        *)
(* indexes, the clock reading followed by a counter that restarts when     *)
(* the clock moves.                                                        *)

NewSeqIndex == [time |-> 0, counter |-> 0]

SeqNext(seq, t) ==
    [time |-> t, counter |-> IF seq.time = t THEN seq.counter + 1 ELSE 0]

\* seqIndex.short(): the index generated in state seq (after SeqNext)
SeqShort(seq) == NatToHex(seq.time * SeqSpan + seq.counter)

\* LevelWriteStream.genIndex / LevelStoreStream.genIndex
genIndex(K, seq) == K \o <<Space>> \o SeqShort(seq)

----------------------------------------------------------------------------
(* State                                                                   *)

Slots == 1..NSlots

\* What has happened to a stream, as its caller saw it:
\*   known    no call that changes the stream is unfinished or has failed
\*            since the last session or delete
\*   base     the non-empty buffers of the last finished session, when it
\*            had no append option
\*   pres     the chunks of the prepends that called back true since
\*   deleted  delete called back and no session has written since
\*   written  a session has persisted a chunk and no clearing began since
\*   metaSet, meta   the data of the last setMeta that called back true
NoHist ==
    [known |-> TRUE, base |-> <<>>, pres |-> <<>>, deleted |-> FALSE,
     written |-> FALSE, metaSet |-> FALSE, meta |-> <<>>]

\* the history of a stream with a change under way, or failed
Unknown(h) == [h EXCEPT !.known = FALSE, !.base = <<>>, !.pres = <<>>]

\* the call or stream object that was over just before a call: the kind of
\* a session without the append option that wrote a buffer and finished,
\* or "none"
NoLast == "none"

LastOf(pr) ==
    IF pr.pc = "finished" /\ ~pr.append /\ pr.inputs # <<>>
    THEN pr.kind ELSE NoLast

\* key is K, a space and a suffix
OfStream(key, K) ==
    /\ Len(key) > Len(K) + 1
    /\ SubSeq(key, 1, Len(K) + 1) = K \o <<Space>>

\* key is K, a space and an index that starts with a digit
IsChunkKey(key, K) ==
    /\ OfStream(key, K)
    /\ key[Len(K) + 2] >= 48 /\ key[Len(K) + 2] <= 57

\* What a call found when it was issued: the number of entries and of
\* chunks of its stream, whether the existence record was there, the
\* history of the stream and the call before
Pre(store, K, h, last) ==
    [entries |-> Cardinality({k \in DOMAIN store : OfStream(k, K)}),
     chunks |-> Cardinality({k \in DOMAIN store : IsChunkKey(k, K)}),
     sys |-> K \o <<Space, Hash>> \in DOMAIN store,
     h |-> h, last |-> last]

NoPre ==
    [entries |-> 0, chunks |-> 0, sys |-> FALSE, h |-> NoHist,
     last |-> NoLast]

\* A slot.  db0 is the store as the call found it, kept until the call
\* issues a put or a batch (wrote).  returned and batches belong to
\* levelDelete of lib/level-stream-access.js: its flag, and the batches it
\* has issued that the store has not served yet.  empties tells that the
\* session was given an empty buffer, dropped that an error of the store
\* was passed to no callback, from is the startIndex option a reader was
\* created with, ready that the consumer of a reader has asked for data and
\* no push has reported since that it is not ready, closed that the reader
\* was destroyed.
NoProc ==
    [kind |-> "none", key |-> <<>>, pc |-> "idle",
     append |-> FALSE, initial |-> FALSE, seq |-> NewSeqIndex,
     start |-> <<>>, chunk |-> <<>>, data |-> <<>>, putKey |-> <<>>,
     iter |-> <<>>, ops |-> <<>>, found |-> <<>>, sys |-> <<>>,
     err |-> FALSE, count |-> 0, ok |-> FALSE, meta |-> <<>>,
     inputs |-> <<>>, out |-> <<>>, got |-> <<>>, rew |-> FALSE,
     wrote |-> FALSE, db0 |-> <<>>, pre |-> NoPre,
     returned |-> FALSE, batches |-> <<>>, empties |-> FALSE,
     dropped |-> FALSE, from |-> <<>>, ready |-> FALSE,
     closed |-> FALSE]

Init ==
    /\ db = <<>>
    /\ now = ClockStart
    /\ serial = TRUE
    /\ procs = [p \in Slots |-> NoProc]
    /\ hist = [K \in StreamKeys |-> NoHist]

\* the object or call of slot p is over
Free(p) ==
    /\ procs[p].pc \in {"idle", "done", "finished", "ended", "failed"}
    /\ procs[p].batches = <<>>

\* the caller may issue a call or create a stream object
CanStart ==
    IF serial THEN \A p \in Slots : Free(p) ELSE \E p \in Slots : Free(p)

NewSlot == CHOOSE p \in Slots : Free(p) /\ \A q \in Slots : q < p => ~Free(q)

\* a call or stream object that is over: what its closures held is gone
Over(pr, pc) ==
    [pr EXCEPT !.pc = pc, !.seq = NewSeqIndex, !.start = <<>>,
               !.chunk = <<>>, !.putKey = <<>>, !.iter = <<>>, !.ops = <<>>,
               !.found = <<>>, !.sys = <<>>, !.initial = FALSE]

\* the call issues a put or a batch
Wrote(pr) == [pr EXCEPT !.wrote = TRUE, !.db0 = <<>>]

----------------------------------------------------------------------------
(* The clock                                                               *)

\* the next step of slot p reads the clock: the put of the existence
\* record is issued with {created: Date.now()}, or an index is generated
ReadsClock(p) ==
    /\ procs[p].kind \in {"write", "store"}
    /\ \/ procs[p].pc = "del_end" /\ procs[p].ops = <<>>
       \/ procs[p].pc \in {"del_batch", "put_sys"}
       \/ procs[p].pc = "ready" /\ ~procs[p].initial
          /\ Len(procs[p].inputs) < MaxBufs

\* time passes; a tick is taken when the next step of some slot can tell
Tick ==
    /\ now < ClockStart + MaxTicks
    /\ \E p \in Slots : ReadsClock(p)
    /\ now' = now + 1
    /\ UNCHANGED <<db, serial, procs, hist>>

----------------------------------------------------------------------------
(* streamDelete, called by delete() and by the first write of a session    *)

\* the call of streamDelete: the iterator is created, iterate is scheduled
DeleteCall(pr, K) ==
    [pr EXCEPT !.pc = "del_next",
               !.iter = Iterator(db, DeleteLow(K), High(K)),
               !.ops = <<>>]

\* callback(null, n) of streamDelete: delete() reports n; a session issues
\* the put of the existence record {created: Date.now()}
DeleteReturn(pr, n) ==
    IF pr.kind = "delete"
    THEN [Over(pr, "done") EXCEPT !.count = n]
    ELSE [Wrote(pr) EXCEPT !.pc = "put_sys", !.sys = [created |-> now],
                           !.iter = <<>>, !.ops = <<>>]

HistDeleted(h, pr) ==
    IF pr.kind = "delete"
    THEN [NoHist EXCEPT !.deleted = TRUE]
    ELSE h

StartDelete(K) ==
    /\ CanStart
    /\ procs' = [procs EXCEPT ![NewSlot] =
          DeleteCall([NoProc EXCEPT !.kind = "delete", !.key = K,
                                    !.db0 = db,
                                    !.pre = Pre(db, K,
                                        [NoHist EXCEPT !.deleted = hist[K].deleted],
                                        NoLast)], K)]
    /\ hist' = [hist EXCEPT ![K] =
          [Unknown(@) EXCEPT !.written = FALSE, !.metaSet = FALSE,
                             !.meta = <<>>]]
    /\ UNCHANGED <<db, now, serial>>

\* iterate, once per key of the iterator and once more: iterator.next
\* calls back with a key, which is collected, and at last without one, and
\* the iterator is ended.  The iterator reads its snapshot and ops is local
\* to the call, so the rounds are taken in one step.
DeleteNext(p) ==
    /\ procs[p].pc = "del_next"
    /\ procs' = [procs EXCEPT ![p] =
          [@ EXCEPT !.ops = @ \o procs[p].iter, !.iter = <<>>,
                    !.pc = "del_end"]]
    /\ UNCHANGED <<db, now, serial, hist>>

\* iterator.end calls back: nothing to delete, or the batch is issued
DeleteEnd(p) ==
    /\ procs[p].pc = "del_end"
    /\ IF procs[p].ops = <<>>
       THEN /\ procs' = [procs EXCEPT ![p] = DeleteReturn(@, 0)]
            /\ hist' = [hist EXCEPT ![procs[p].key] = HistDeleted(@, procs[p])]
       ELSE /\ procs' = [procs EXCEPT ![p] = [Wrote(@) EXCEPT !.pc = "del_batch"]]
            /\ hist' = hist
    /\ UNCHANGED <<db, now, serial>>

\* a count of the chunks only
DeleteCountChunks(ops) ==
    Len(SelectSeq(ops, LAMBDA k : SplitPop(k) # <<>> /\ IsHexChar(SplitPop(k)[1])))
\* ops.length, the count streamDelete reports
DeleteCount(ops) == Len(ops)

\* db.batch calls back
DeleteBatch(p) ==
    /\ procs[p].pc = "del_batch"
    /\ db' = BatchDel(db, procs[p].ops)
    /\ procs' = [procs EXCEPT ![p] = DeleteReturn(@, DeleteCount(procs[p].ops))]
    /\ hist' = [hist EXCEPT ![procs[p].key] = HistDeleted(@, procs[p])]
    /\ UNCHANGED <<now, serial>>

----------------------------------------------------------------------------
(* LevelWriteStream and LevelStoreStream                                   *)

\* this._initial of the constructors
InitialOf(append) == IF append THEN append ELSE TRUE

\* createWriteStream (kind "write"), createStoreStream (kind "store")
StartWrite(K, kind, append) ==
    /\ CanStart
    /\ procs' = [procs EXCEPT ![NewSlot] =
          [NoProc EXCEPT !.kind = kind, !.key = K, !.pc = "ready",
                         !.append = append, !.initial = InitialOf(append),
                         !.seq = NewSeqIndex, !.db0 = db]]
    /\ UNCHANGED <<db, now, serial, hist>>

\* writeChunk(): the index is generated and the put of the chunk is issued
WriteChunk(pr) ==
    LET seq == SeqNext(pr.seq, now)
    IN  [Wrote(pr) EXCEPT !.seq = seq, !.putKey = genIndex(pr.key, seq),
                          !.sys = <<>>, !.pc = "put_chunk"]

\* a first write that does not clear the stream
WriteNonEmptyKeep(pr) ==
    WriteChunk([pr EXCEPT !.initial = FALSE,
                          !.rew = Chunks(db, pr.key) # <<>>])
\* _write / _transform of a non-empty chunk
WriteNonEmpty(pr) ==
    IF pr.initial
    THEN DeleteCall([pr EXCEPT !.initial = FALSE,
                               !.rew = Chunks(db, pr.key) # <<>>], pr.key)
    ELSE WriteChunk(pr)

\* a chunk that is not empty
IsChunkAlways(b) == TRUE
\* !(!chunk || !chunk.length)
IsChunk(b) == b # <<>>

\* _write(chunk) / _transform(chunk)
WriteBuf(p, b) ==
    /\ procs[p].kind \in {"write", "store"}
    /\ procs[p].pc = "ready"
    /\ Len(procs[p].inputs) < MaxBufs
    /\ IF ~IsChunk(b)
       THEN /\ procs' = [procs EXCEPT ![p].empties = TRUE]
            /\ hist' = hist
       ELSE /\ procs' = [procs EXCEPT ![p] =
                  WriteNonEmpty([@ EXCEPT !.inputs = Append(@, b),
                                          !.chunk = b])]
            /\ hist' = [hist EXCEPT ![procs[p].key] =
                  IF procs[p].initial
                  THEN Unknown(NoHist)
                  ELSE [Unknown(@) EXCEPT !.deleted = FALSE]]
    /\ UNCHANGED <<db, now, serial>>

\* the put of the existence record calls back: writeChunk()
WritePutSys(p) ==
    /\ procs[p].pc = "put_sys"
    /\ db' = Put(db, SysKey(procs[p].key), Json(procs[p].sys))
    /\ procs' = [procs EXCEPT ![p] = WriteChunk(@)]
    /\ UNCHANGED <<now, serial, hist>>

\* a store stream that calls back as the write stream does
EmitNothing(pr) == pr.out
\* what the stream has passed downstream after the put of its chunk:
\* callback() of the write stream, callback(null, chunk) of the store stream
Emit(pr) == IF pr.kind = "store" THEN Append(pr.out, pr.chunk) ELSE pr.out

\* the put of the chunk calls back
WritePutChunk(p) ==
    /\ procs[p].pc = "put_chunk"
    /\ db' = Put(db, procs[p].putKey, Bin(procs[p].chunk))
    /\ procs' = [procs EXCEPT ![p] =
          [@ EXCEPT !.pc = "ready", !.putKey = <<>>, !.chunk = <<>>,
                    !.out = Emit(procs[p])]]
    /\ hist' = [hist EXCEPT ![procs[p].key].written = TRUE]
    /\ UNCHANGED <<now, serial>>

\* the session as the caller saw it when it finished
HistFinished(h, pr) ==
    IF pr.initial \/ pr.append
    THEN h
    ELSE [h EXCEPT !.known = TRUE,
                   !.base = pr.inputs,
                   !.pres = <<>>]

\* end() with every write acknowledged: 'finish' (and 'end' of the store
\* stream)
WriteEnd(p) ==
    /\ procs[p].kind \in {"write", "store"}
    /\ procs[p].pc = "ready"
    /\ procs' = [procs EXCEPT ![p] = Over(@, "finished")]
    /\ hist' = [hist EXCEPT ![procs[p].key] = HistFinished(@, procs[p])]
    /\ UNCHANGED <<db, now, serial>>

----------------------------------------------------------------------------
(* streamPrepend                                                           *)

\* the chunk after the conversion of a string
PrependChunk(v) == IF v.t = "string" THEN Buf(Utf8(v.b)) ELSE v

\* a prepend that scans the range of streamDelete
FirstKeyAny(store, K) ==
    LET ks == Iterator(store, DeleteLow(K), High(K))
    IN  IF ks = <<>> THEN <<>> ELSE Head(ks)
\* the first key of the iterator of prepend, <<>> when it has none
FirstKey(store, K) ==
    LET ks == Iterator(store, ChunkLow(K), High(K))
    IN  IF ks = <<>> THEN <<>> ELSE Head(ks)

\* a prepend that does not decrement the index
PrependKeySame(key) ==
    SplitJoin(key) \o <<Space>> \o ToString16(ParseInt16(SplitPop(key)))
\* the key prepend puts the chunk under: the index of the first key, less
\* one, in hexadecimal
PrependKey(key) ==
    LET index == ParseInt16(SplitPop(key))
        less  == IF index.nan THEN NaN ELSE Num(index.v - 1)
    IN  SplitJoin(key) \o <<Space>> \o ToString16(less)

\* a prepend that takes any value
IsBufferAny(chunk) == TRUE
\* chunk && typeof chunk === 'object' && typeof chunk.slice === 'function'
IsBuffer(chunk) == chunk.t = "buffer"

StartPrepend(K, v) ==
    /\ CanStart
    /\ Len(Chunks(db, K)) < MaxChunks
    /\ procs' = [procs EXCEPT ![NewSlot] =
          [NoProc EXCEPT !.kind = "prepend", !.key = K, !.data = v,
                         !.db0 = db, !.pre = Pre(db, K, NoHist, NoLast),
                         !.chunk = PrependChunk(v).b,
                         !.found = IF IsBuffer(PrependChunk(v))
                                   THEN FirstKey(db, K) ELSE <<>>,
                         !.pc = IF IsBuffer(PrependChunk(v))
                                THEN "pre_next" ELSE "pre_reject"]]
    /\ UNCHANGED <<db, now, serial, hist>>

\* setImmediate: callback(new Error('Value must be a Buffer instance'))
PrependReject(p) ==
    /\ procs[p].pc = "pre_reject"
    /\ procs' = [procs EXCEPT ![p] = [Over(@, "done") EXCEPT !.err = TRUE]]
    /\ UNCHANGED <<db, now, serial, hist>>

\* iterator.next calls back: the iterator is ended
PrependNext(p) ==
    /\ procs[p].pc = "pre_next"
    /\ procs' = [procs EXCEPT ![p].pc = "pre_end"]
    /\ UNCHANGED <<db, now, serial, hist>>

\* iterator.end calls back: no chunk, or the put is issued
PrependEnd(p) ==
    /\ procs[p].pc = "pre_end"
    /\ procs' = [procs EXCEPT ![p] =
          IF procs[p].found = <<>>
          THEN [Over(@, "done") EXCEPT !.ok = FALSE]
          ELSE [Wrote(@) EXCEPT !.pc = "pre_put",
                                !.putKey = PrependKey(procs[p].found)]]
    /\ UNCHANGED <<db, now, serial, hist>>

\* the put calls back: callback(null, true)
PrependPut(p) ==
    /\ procs[p].pc = "pre_put"
    /\ db' = Put(db, procs[p].putKey, Bin(procs[p].chunk))
    /\ procs' = [procs EXCEPT ![p] = [Over(@, "done") EXCEPT !.ok = TRUE]]
    /\ hist' = [hist EXCEPT ![procs[p].key] =
          IF hist[procs[p].key].known
                /\ Len(hist[procs[p].key].pres) < MaxChunks
          THEN [@ EXCEPT !.deleted = FALSE,
                         !.pres = Append(@, procs[p].chunk)]
          ELSE [Unknown(@) EXCEPT !.deleted = FALSE]]
    /\ UNCHANGED <<now, serial>>

----------------------------------------------------------------------------
(* streamSetMeta, streamGetMeta                                            *)

\* an existence test that reads the user record
ExistsUser(store, K) == Has(store, UserKey(K))
\* db.get(key + ' #') does not call back with NotFoundError
Exists(store, K) == Has(store, SysKey(K))

StartSetMeta(K, data) ==
    /\ CanStart
    /\ procs' = [procs EXCEPT ![NewSlot] =
          [NoProc EXCEPT !.kind = "setMeta", !.key = K, !.pc = "sm_get",
                         !.data = data, !.db0 = db,
                         !.pre = Pre(db, K, hist[K], NoLast)]]
    /\ UNCHANGED <<db, now, serial, hist>>

\* the get of the existence record calls back
SetMetaGet(p) ==
    /\ procs[p].pc = "sm_get"
    /\ procs' = [procs EXCEPT ![p] =
          IF Exists(db, procs[p].key)
          THEN [Wrote(@) EXCEPT !.pc = "sm_put"]
          ELSE [Over(@, "done") EXCEPT !.ok = FALSE]]
    /\ UNCHANGED <<db, now, serial, hist>>

\* the put of the user record calls back: callback(null, true)
SetMetaPut(p) ==
    /\ procs[p].pc = "sm_put"
    /\ db' = Put(db, UserKey(procs[p].key), Json(procs[p].data))
    /\ procs' = [procs EXCEPT ![p] = [Over(@, "done") EXCEPT !.ok = TRUE]]
    /\ hist' = [hist EXCEPT ![procs[p].key] =
          [@ EXCEPT !.metaSet = TRUE, !.meta = procs[p].data,
                    !.deleted = FALSE]]
    /\ UNCHANGED <<now, serial>>

StartGetMeta(K) ==
    /\ CanStart
    /\ procs' = [procs EXCEPT ![NewSlot] =
          [NoProc EXCEPT !.kind = "getMeta", !.key = K, !.pc = "gm_sys",
                         !.pre = Pre(db, K, hist[K], NoLast)]]
    /\ UNCHANGED <<db, now, serial, hist>>

\* the get of the existence record calls back
GetMetaSys(p) ==
    /\ procs[p].pc = "gm_sys"
    /\ procs' = [procs EXCEPT ![p] =
          IF Exists(db, procs[p].key)
          THEN [@ EXCEPT !.pc = "gm_user",
                         !.sys = JsonParse(db[SysKey(procs[p].key)].json)]
          ELSE [Over(@, "done") EXCEPT !.ok = FALSE]]
    /\ UNCHANGED <<db, now, serial, hist>>

\* a merge in which the user's fields win
MergeMetaUser(userData, data) ==
    [f \in DOMAIN userData \cup DOMAIN data |->
        IF f \in DOMAIN userData THEN userData[f] ELSE data[f]]
\* Object.keys(data).forEach(key => userData[key] = data[key])
MergeMeta(userData, data) ==
    [f \in DOMAIN userData \cup DOMAIN data |->
        IF f \in DOMAIN data THEN data[f] ELSE userData[f]]

\* the result of the get of the user record: [ok, meta]
UserMeta(store, K, data) ==
    IF Has(store, UserKey(K))
    THEN [ok |-> TRUE,
          meta |-> MergeMeta(JsonParse(store[UserKey(K)].json), data)]
    ELSE [ok |-> FALSE, meta |-> <<>>]

\* the get of the user record calls back
GetMetaUser(p) ==
    /\ procs[p].pc = "gm_user"
    /\ procs' = [procs EXCEPT ![p] =
          [Over(@, "done") EXCEPT
               !.ok = UserMeta(db, procs[p].key, procs[p].sys).ok,
               !.meta = UserMeta(db, procs[p].key, procs[p].sys).meta]]
    /\ UNCHANGED <<db, now, serial, hist>>

----------------------------------------------------------------------------
(* LevelReadStream                                                         *)

\* a reader without a default start index
StartIndexAsGiven(startIndex) == startIndex
\* this._index of the constructor
StartIndexOf(startIndex) == IF startIndex = <<>> THEN <<Slash>> ELSE startIndex

\* the bytes a scan delivers for a stored value (the reader's encoding
\* decodes nothing); a JSON text is rendered by its braces
ValueBytes(v) == IF v.enc = "bin" THEN v.bytes ELSE <<123, 125>>

\* a key stream that begins at its lower bound (gte)
ReadEntriesGte(store, K, index) ==
    LET ks == SortKeys({k \in DOMAIN store :
                  /\ ~LexLess(k, K \o <<Space>> \o index)
                  /\ LexLess(k, High(K))})
    IN  [i \in 1..Len(ks) |-> [key |-> ks[i], value |-> ValueBytes(store[ks[i]])]]
\* the entries of the key stream of a reader
ReadEntries(store, K, index) ==
    LET ks == Iterator(store, K \o <<Space>> \o index, High(K))
    IN  [i \in 1..Len(ks) |-> [key |-> ks[i], value |-> ValueBytes(store[ks[i]])]]

\* createReadStream: the key stream is created and paused
StartRead(K, startIndex) ==
    /\ CanStart
    /\ procs' = [procs EXCEPT ![NewSlot] =
          [NoProc EXCEPT !.kind = "read", !.key = K, !.pc = "paused",
                         !.from = startIndex, !.db0 = db,
                         !.start = StartIndexOf(startIndex),
                         !.iter = ReadEntries(db, K, StartIndexOf(startIndex)),
                         !.pre = Pre(db, K, hist[K],
                                     LastOf(procs[NewSlot]))]]
    /\ UNCHANGED <<db, now, serial, hist>>

\* _read(): the key stream is resumed
ReadResume(p) ==
    /\ procs[p].pc = "paused"
    /\ ~procs[p].closed
    /\ procs' = [procs EXCEPT ![p] = [@ EXCEPT !.pc = "flowing",
                                              !.ready = TRUE]]
    /\ UNCHANGED <<db, now, serial, hist>>

\* a key stream that is never paused
AfterPushFlowing(ready) == "flowing"
\* if (!this.push(data.value)) this._keyStream.pause()
AfterPush(ready) == IF ready THEN "flowing" ELSE "paused"

\* 'data' of the key stream: the value is pushed; the key stream is paused
\* when push reports that the consumer is not ready
ReadData(p, ready) ==
    /\ procs[p].pc = "flowing"
    /\ procs[p].iter # <<>>
    /\ procs' = [procs EXCEPT ![p] =
          [@ EXCEPT !.start = Head(procs[p].iter).key,
                    !.got = Append(@, Head(procs[p].iter).value),
                    !.iter = Tail(@),
                    !.ready = ready,
                    !.pc = AfterPush(ready)]]
    /\ UNCHANGED <<db, now, serial, hist>>

\* a key stream that may end before its last entry
AtEndAny(pr) == TRUE
\* the key stream has delivered its last entry
AtEnd(pr) == pr.iter = <<>>

\* 'end' of the key stream: push(null)
ReadEnd(p) ==
    /\ procs[p].pc = "flowing"
    /\ AtEnd(procs[p])
    /\ procs' = [procs EXCEPT ![p] = Over(@, "ended")]
    /\ UNCHANGED <<db, now, serial, hist>>

----------------------------------------------------------------------------
(* Store errors                                                            *)

\* the locations at which a store request is outstanding
Waiting ==
    {"del_next", "del_end", "del_batch", "put_sys", "put_chunk",
     "pre_next", "pre_end", "pre_put", "sm_get", "sm_put",
     "gm_sys", "gm_user", "flowing"}

\* callback(err) of a call or of a write; 'error' of a stream object
Failed(pr) ==
    [NoProc EXCEPT !.kind = pr.kind, !.key = pr.key, !.err = TRUE,
                   !.inputs = pr.inputs, !.out = pr.out, !.data = pr.data,
                   !.pc = IF pr.kind \in {"write", "store", "read"}
                          THEN "failed" ELSE "done"]

\* the outstanding request of slot p fails (not with NotFoundError):
\* callback(err), or 'error' of the reader; the request has no effect
Fault(p) ==
    /\ procs[p].pc \in Waiting
    /\ procs' = [procs EXCEPT ![p] = Failed(@)]
    /\ hist' = [hist EXCEPT ![procs[p].key] =
          IF procs[p].kind \in {"read", "getMeta"}
          THEN @
          ELSE [Unknown(@) EXCEPT !.metaSet = FALSE, !.meta = <<>>]]
    /\ UNCHANGED <<db, now, serial>>

----------------------------------------------------------------------------
(* Specification: a caller that issues one call at a time                  *)

Start ==
    \E K \in DOMAIN hist :
        \/ StartDelete(K)
        \/ \E kind \in {"write", "store"}, append \in BOOLEAN :
               StartWrite(K, kind, append)
        \/ \E v \in PrependInputs : StartPrepend(K, v)
        \/ \E data \in MetaInputs : StartSetMeta(K, data)
        \/ StartGetMeta(K)
        \/ \E startIndex \in StartIndexes : StartRead(K, startIndex)

Step(p) ==
    \/ DeleteNext(p)
    \/ DeleteEnd(p)
    \/ DeleteBatch(p)
    \/ \E b \in WriteInputs(Len(procs[p].inputs) + 1) : WriteBuf(p, b)
    \/ WritePutSys(p)
    \/ WritePutChunk(p)
    \/ WriteEnd(p)
    \/ PrependReject(p)
    \/ PrependNext(p)
    \/ PrependEnd(p)
    \/ PrependPut(p)
    \/ SetMetaGet(p)
    \/ SetMetaPut(p)
    \/ GetMetaSys(p)
    \/ GetMetaUser(p)
    \/ ReadResume(p)
    \/ \E ready \in BOOLEAN : ReadData(p, ready)
    \/ ReadEnd(p)
    \/ Fault(p)

Next == Tick \/ Start \/ \E p \in Slots : Step(p)

Spec == Init /\ [][Next]_vars

----------------------------------------------------------------------------
(* Properties of the serial specification                                  *)

\* the bytes of a sequence of buffers
RECURSIVE Concat(_)
Concat(ss) == IF ss = <<>> THEN <<>> ELSE Head(ss) \o Concat(Tail(ss))

RECURSIVE Reverse(_)
Reverse(s) == IF s = <<>> THEN <<>> ELSE Append(Reverse(Tail(s)), Head(s))

\* the call or stream object of slot p is over without an error
Over0(p, kind, pc) ==
    /\ procs[p].kind = kind
    /\ procs[p].pc = pc
    /\ ~procs[p].err

\* the chunks a reader of stream K in the default range is given
DefaultRead(K) ==
    LET es == ReadEntries(db, K, StartIndexOf(<<>>))
    IN  [i \in 1..Len(es) |-> es[i].value]

\* a reader without startIndex that has ended and was created right after
\* a session of the given kind without the append option wrote buffers and
\* finished
ReadAfter(p, kind) ==
    /\ Over0(p, "read", "ended")
    /\ procs[p].from = <<>>
    /\ procs[p].pre.last = kind
    /\ procs[p].pre.h.known
    /\ procs[p].pre.h.base # <<>>

\* C1: a reader of K in the default range, created after a write session
\* on K was given buffers of which at least one is not empty and finished,
\* is given the bytes of those buffers in the order they were written.
C1_RoundTrip ==
    \A p \in Slots :
        ReadAfter(p, "write") =>
            Concat(procs[p].got) = Concat(procs[p].pre.h.base)

C1_Witness ==
    \E p \in Slots :
        /\ ReadAfter(p, "write")
        /\ Len(procs[p].pre.h.base) = 2
        /\ Len(procs[p].got) = 2

\* C2: when a session without the append option on a key that holds chunks
\* has written a non-empty buffer and finished, a read of the key in the
\* default range gives the buffers of that session and nothing of the
\* chunks the key held before.
C2_Rewrite ==
    \A p \in Slots :
        ( /\ procs[p].kind \in {"write", "store"}
          /\ procs[p].pc = "finished"
          /\ ~procs[p].append
          /\ procs[p].rew )
        => DefaultRead(procs[p].key) = procs[p].inputs

C2_Witness ==
    \E p \in Slots :
        /\ Over0(p, "write", "finished")
        /\ ~procs[p].append
        /\ procs[p].rew
        /\ Len(procs[p].inputs) = 1

\* C3: a store stream that has finished has passed downstream the bytes it
\* was given, in order, and a reader of its key created right after is
\* (without startIndex) is given the same bytes.
C3_StorePassThrough ==
    \A p \in Slots :
        /\ (Over0(p, "store", "finished") =>
               Concat(procs[p].out) = Concat(procs[p].inputs))
        /\ (ReadAfter(p, "store") =>
               Concat(procs[p].got) = Concat(procs[p].pre.h.base))

C3_Witness ==
    \E p \in Slots :
        /\ ReadAfter(p, "store")
        /\ Len(procs[p].pre.h.base) = 2
        /\ Len(procs[p].got) = 2

\* C4: a delete that calls back without an error reports the number of
\* entries of the key it removed and leaves none: more than 0 when the key
\* held a chunk, 0 when the key was deleted before and not written since,
\* and 0 when the key holds nothing.
C4_DeleteCount ==
    \A p \in Slots :
        Over0(p, "delete", "done") =>
            /\ procs[p].count = procs[p].pre.entries
            /\ (procs[p].pre.chunks > 0 => procs[p].count > 0)
            /\ (procs[p].pre.h.deleted => procs[p].count = 0)
            /\ \A k \in DOMAIN db : ~OfStream(k, procs[p].key)

C4_Witness ==
    \E p \in Slots :
        /\ Over0(p, "delete", "done")
        /\ procs[p].pre.chunks = 2
        /\ procs[p].count = 4

\* C5: after a delete of K has called back without an error and until K is
\* written again, the store holds no metadata record of K, and getMeta and
\* setMeta on K call back with false.
C5_DeleteRemovesMeta ==
    /\ \A K \in StreamKeys :
           hist[K].deleted => ~Has(db, SysKey(K)) /\ ~Has(db, UserKey(K))
    /\ \A p \in Slots :
           ( /\ \/ Over0(p, "getMeta", "done")
                \/ Over0(p, "setMeta", "done")
             /\ procs[p].pre.h.deleted )
           => ~procs[p].ok

C5_Witness ==
    \E p \in Slots :
        /\ Over0(p, "getMeta", "done")
        /\ procs[p].pre.h.deleted
        /\ ~procs[p].ok

C7_PrependNoStream ==
    \A p \in Slots :
        ( /\ Over0(p, "prepend", "done")
          /\ procs[p].pre.chunks = 0 )
        => /\ ~procs[p].ok
           /\ ~procs[p].wrote
           /\ db = procs[p].db0

C7_Witness ==
    \E p \in Slots :
        /\ Over0(p, "prepend", "done")
        /\ procs[p].pre.chunks = 0
        /\ procs[p].pre.sys
        /\ ~procs[p].ok

\* C8: setMeta calls back with true exactly when the existence record of
\* the key was in the store; when it was not, setMeta calls back with
\* false, issues no put and leaves the store as it was.
C8_SetMetaGate ==
    \A p \in Slots :
        Over0(p, "setMeta", "done") =>
            /\ (procs[p].ok <=> procs[p].pre.sys)
            /\ (~procs[p].ok => ~procs[p].wrote /\ db = procs[p].db0)

C8_Witness ==
    \E p \in Slots :
        /\ Over0(p, "setMeta", "done")
        /\ ~procs[p].pre.sys
        /\ ~procs[p].ok

\* what getMeta is to give for the user's object m and the existence record
MetaExpected(m, sys) ==
    [f \in DOMAIN m \cup {"created"} |->
        IF f = "created" THEN sys.created ELSE m[f]]

\* C9: setMeta on a key that has been written calls back with true, and a
\* getMeta after it gives the fields of the object of the latest setMeta
\* and the system's field created, which replaces a field created of the
\* user.
C9_MetaRoundTrip ==
    \A p \in Slots :
        /\ ( Over0(p, "setMeta", "done") /\ procs[p].pre.h.written )
           => procs[p].ok
        /\ ( Over0(p, "getMeta", "done") /\ procs[p].pre.h.metaSet )
           => /\ procs[p].ok
              /\ Has(db, SysKey(procs[p].key))
              /\ procs[p].meta =
                     MetaExpected(procs[p].pre.h.meta,
                         JsonParse(db[SysKey(procs[p].key)].json))

C9_Witness ==
    \E p \in Slots :
        /\ Over0(p, "getMeta", "done")
        /\ procs[p].pre.h.metaSet
        /\ "created" \in DOMAIN procs[p].pre.h.meta
        /\ procs[p].ok
        /\ procs[p].meta.created # procs[p].pre.h.meta.created

\* C10: getMeta calls back with false exactly when the existence record of
\* the key is not in the store; for a key that was written and never given
\* metadata it gives the system's fields.
C10_GetMetaFalseIffAbsent ==
    \A p \in Slots :
        Over0(p, "getMeta", "done") =>
            (~procs[p].ok <=> ~procs[p].pre.sys)

\* a getMeta that called back with false on a key whose existence record
\* was in the store
C10_FalseOnWritten ==
    \E p \in Slots :
        /\ Over0(p, "getMeta", "done")
        /\ procs[p].pre.sys
        /\ procs[p].pre.h.written
        /\ ~procs[p].ok

----------------------------------------------------------------------------
(* Two streams, one named by the other's key followed by a space and an    *)
(* index: "k" and "k 1"                                                    *)

IsoKeys == {<<107>>, <<107, Space, 49>>}

InitIso ==
    /\ db = <<>>
    /\ now = ClockStart
    /\ serial = TRUE
    /\ procs = [p \in Slots |-> NoProc]
    /\ hist = [K \in IsoKeys |-> NoHist]

\* the caller writes, prepends to, reads and deletes the two streams; the
\* store does not fail
NextIso ==
    \/ \E K \in DOMAIN hist :
           \/ StartWrite(K, "write", FALSE)
           \/ StartPrepend(K, Buf(<<1>>))
           \/ StartRead(K, <<>>)
           \/ StartDelete(K)
    \/ \E p \in Slots :
           \/ \E b \in WriteInputs(Len(procs[p].inputs) + 1) : WriteBuf(p, b)
           \/ DeleteNext(p)
           \/ DeleteEnd(p)
           \/ DeleteBatch(p)
           \/ WritePutSys(p)
           \/ WritePutChunk(p)
           \/ WriteEnd(p)
           \/ PrependNext(p)
           \/ PrependEnd(p)
           \/ PrependPut(p)
           \/ ReadResume(p)
           \/ ReadData(p, TRUE)
           \/ ReadEnd(p)

SpecIso == InitIso /\ [][NextIso]_vars

\* the stream an entry belongs to: its key up to the last space
Owner(key) == SplitJoin(key)

\* C11: the scans of a reader, of a delete (also the clearing of a
\* session) and of a prepend on K enumerate only entries of K, whatever
\* other stream keys are in use, also the key K followed by ' 1'.
C11_Isolation ==
    \A p \in Slots :
        /\ procs[p].kind = "read" =>
               \A i \in DOMAIN procs[p].iter :
                   Owner(procs[p].iter[i].key) = procs[p].key
        /\ procs[p].kind \in {"delete", "write", "store"} =>
               /\ \A i \in DOMAIN procs[p].iter :
                      Owner(procs[p].iter[i]) = procs[p].key
               /\ \A i \in DOMAIN procs[p].ops :
                      Owner(procs[p].ops[i]) = procs[p].key
        /\ (procs[p].kind = "prepend" /\ procs[p].found # <<>>) =>
               Owner(procs[p].found) = procs[p].key

----------------------------------------------------------------------------
(* lib/level-stream-access.js: the library without metadata and prepend.   *)
(* levelDelete reads a key stream and issues one batch for the keys of     *)
(* each 'readable' event; it does not wait for the batches.                *)

LibSeqSpan == 4096
LibSeqMask == 4095

\* the decimal digits of a non-negative integer
RECURSIVE NatToDec(_)
NatToDec(n) ==
    IF n < 10 THEN <<48 + n>>
    ELSE Append(NatToDec(n \div 10), 48 + (n % 10))

\* x & 0xfff of a non-negative integer
AndMask(x) == x % (LibSeqMask + 1)

\* _genIndex() with this._seqCounter = index at clock reading t
LibGenIndex(K, index, t) ==
    K \o <<Space>> \o NatToDec(t * LibSeqSpan + AndMask(index))

\* writeChunk(): the index is generated, the counter is incremented and the
\* put of the chunk is issued
LibWriteChunk(pr) ==
    [Wrote(pr) EXCEPT !.putKey = LibGenIndex(pr.key, pr.seq.counter, now),
                      !.seq = [time |-> 0, counter |-> pr.seq.counter + 1],
                      !.iter = <<>>, !.pc = "put_chunk"]

\* the call of levelDelete: the key stream is created
LibDeleteCall(pr, K) ==
    [pr EXCEPT !.pc = "ld_keys",
               !.iter = Iterator(db, DeleteLow(K), High(K)),
               !.count = 0, !.returned = FALSE, !.batches = <<>>]

\* callback(null, deleted) of levelDelete
LibDeleteReturn(pr) ==
    IF pr.kind = "delete"
    THEN [Over(pr, "done") EXCEPT !.returned = TRUE]
    ELSE [LibWriteChunk(pr) EXCEPT !.returned = TRUE]

\* callback(err) of levelDelete, of a put, 'error' of a reader; the
\* batches that are outstanding stay outstanding
LibFailed(pr) ==
    [Failed(pr) EXCEPT !.returned = TRUE, !.batches = pr.batches,
                       !.dropped = pr.dropped]

LibStartDelete(K) ==
    /\ CanStart
    /\ procs' = [procs EXCEPT ![NewSlot] =
          LibDeleteCall([NoProc EXCEPT !.kind = "delete", !.key = K,
                                       !.pre = Pre(db, K, NoHist, NoLast)], K)]
    /\ hist' = [hist EXCEPT ![K] =
          [Unknown(@) EXCEPT !.written = FALSE]]
    /\ UNCHANGED <<db, now, serial>>

\* 'readable' of the key stream with n keys to read: a batch that deletes
\* them is issued
LibReadable(p, n) ==
    /\ procs[p].pc = "ld_keys"
    /\ n \in 1..Len(procs[p].iter)
    /\ procs' = [procs EXCEPT ![p] =
          [Wrote(@) EXCEPT
               !.iter = SubSeq(@, n + 1, Len(@)),
               !.count = @ + n,
               !.batches = Append(@, SubSeq(procs[p].iter, 1, n))]]
    /\ UNCHANGED <<db, now, serial, hist>>

\* 'end' of the key stream: callback(null, deleted)
LibKeysEnd(p) ==
    /\ procs[p].pc = "ld_keys"
    /\ procs[p].iter = <<>>
    /\ procs' = [procs EXCEPT ![p] = LibDeleteReturn(@)]
    /\ UNCHANGED <<db, now, serial, hist>>

\* the store serves the oldest outstanding batch; its callback does
\* nothing
LibBatch(p) ==
    /\ procs[p].batches # <<>>
    /\ db' = BatchDel(db, Head(procs[p].batches))
    /\ procs' = [procs EXCEPT ![p].batches = Tail(@)]
    /\ UNCHANGED <<now, serial, hist>>

\* the oldest outstanding batch fails: callback(err) unless levelDelete
\* has returned
LibBatchError(p) ==
    /\ procs[p].batches # <<>>
    /\ procs' = [procs EXCEPT ![p] =
          IF procs[p].returned
          THEN [@ EXCEPT !.batches = Tail(@), !.dropped = TRUE]
          ELSE [LibFailed(@) EXCEPT !.batches = Tail(@)]]
    /\ UNCHANGED <<db, now, serial, hist>>

\* 'error' of the key stream, the put of a chunk fails, 'error' of the key
\* stream of a reader
LibFault(p) ==
    /\ procs[p].pc \in {"ld_keys", "put_chunk", "flowing"}
    /\ procs' = [procs EXCEPT ![p] = LibFailed(@)]
    /\ hist' = [hist EXCEPT ![procs[p].key] =
          IF procs[p].kind = "read" THEN @ ELSE Unknown(@)]
    /\ UNCHANGED <<db, now, serial>>

\* _write(chunk) / _transform(chunk)
LibWriteBuf(p, b) ==
    /\ procs[p].kind \in {"write", "store"}
    /\ procs[p].pc = "ready"
    /\ Len(procs[p].inputs) < MaxBufs
    /\ IF ~IsChunk(b)
       THEN /\ procs' = [procs EXCEPT ![p].empties = TRUE]
            /\ hist' = hist
       ELSE /\ procs' = [procs EXCEPT ![p] =
                  IF procs[p].initial
                  THEN LibDeleteCall([@ EXCEPT !.inputs = Append(@, b),
                                               !.chunk = b,
                                               !.initial = FALSE],
                                     procs[p].key)
                  ELSE LibWriteChunk([@ EXCEPT !.inputs = Append(@, b),
                                               !.chunk = b])]
            /\ hist' = [hist EXCEPT ![procs[p].key] = Unknown(@)]
    /\ UNCHANGED <<db, now, serial>>

\* this._index of the constructor
LibStartIndexOf(startIndex) == startIndex

\* createReadStream
LibStartRead(K, startIndex) ==
    /\ CanStart
    /\ procs' = [procs EXCEPT ![NewSlot] =
          [NoProc EXCEPT !.kind = "read", !.key = K, !.pc = "paused",
                         !.from = startIndex, !.db0 = db,
                         !.start = LibStartIndexOf(startIndex),
                         !.iter = ReadEntries(db, K, LibStartIndexOf(startIndex)),
                         !.pre = Pre(db, K, hist[K], NoLast)]]
    /\ UNCHANGED <<db, now, serial, hist>>

\* the next step of slot p reads the clock
LibReadsClock(p) ==
    /\ procs[p].kind \in {"write", "store"}
    /\ \/ procs[p].pc = "ld_keys"
       \/ procs[p].pc = "ready" /\ ~procs[p].initial
          /\ Len(procs[p].inputs) < MaxBufs

LibTick ==
    /\ now < ClockStart + MaxTicks
    /\ \E p \in Slots : LibReadsClock(p)
    /\ now' = now + 1
    /\ UNCHANGED <<db, serial, procs, hist>>

LibStart ==
    \E K \in DOMAIN hist :
        \/ LibStartDelete(K)
        \/ \E kind \in {"write", "store"}, append \in BOOLEAN :
               StartWrite(K, kind, append)
        \/ \E startIndex \in StartIndexes : LibStartRead(K, startIndex)

LibStep(p) ==
    \/ \E n \in 1..MaxBufs : LibReadable(p, n)
    \/ LibKeysEnd(p)
    \/ LibBatch(p)
    \/ LibBatchError(p)
    \/ LibFault(p)
    \/ \E b \in WriteInputs(Len(procs[p].inputs) + 1) : LibWriteBuf(p, b)
    \/ WritePutChunk(p)
    \/ WriteEnd(p)
    \/ ReadResume(p)
    \/ \E ready \in BOOLEAN : ReadData(p, ready)
    \/ ReadEnd(p)

NextLib == LibTick \/ LibStart \/ \E p \in Slots : LibStep(p)

\* a caller of lib/level-stream-access.js that issues one call at a time
SpecLib == Init /\ [][NextLib]_vars

\* C12: while the put of a chunk of a session, or the put of the existence
\* record, is outstanding, no request of the clearing of the session (scan
\* or batch of deletes) is outstanding: the clearing is acknowledged before
\* the session puts anything.
C12_InitOrder ==
    \A p \in Slots :
        ( /\ procs[p].kind \in {"write", "store"}
          /\ procs[p].pc \in {"put_sys", "put_chunk"} )
        => /\ procs[p].batches = <<>>
           /\ procs[p].ops = <<>>
           /\ procs[p].iter = <<>>

----------------------------------------------------------------------------
(* _genIndex of lib/level-stream-access.js, applied again and again by one *)
(* session while the clock stands or moves on                              *)

\* Indexes one session generates
MaxIndexes == 4097

InitIndex ==
    /\ db = <<>>
    /\ now = ClockStart
    /\ serial = TRUE
    /\ \E kind \in {"write", "store"}, K \in StreamKeys :
           procs = [p \in Slots |->
                       IF p = 1
                       THEN [NoProc EXCEPT !.kind = kind, !.key = K,
                                           !.pc = "index"]
                       ELSE NoProc]
    /\ hist = [K \in StreamKeys |-> NoHist]

\* this._genIndex(): the key of the next chunk
LibIndexNext(p) ==
    /\ procs[p].pc = "index"
    /\ procs[p].seq.counter < MaxIndexes
    /\ procs' = [procs EXCEPT ![p] =
          [@ EXCEPT !.putKey = LibGenIndex(procs[p].key,
                                           procs[p].seq.counter, now),
                    !.seq = [time |-> 0,
                             counter |-> procs[p].seq.counter + 1]]]
    /\ UNCHANGED <<db, now, serial, hist>>

\* time passes
IndexTick ==
    /\ now < ClockStart + MaxTicks
    /\ now' = now + 1
    /\ UNCHANGED <<db, serial, procs, hist>>

NextIndex == IndexTick \/ \E p \in Slots : LibIndexNext(p)

SpecIndex == InitIndex /\ [][NextIndex]_vars

\* C13: every key a session generates is greater, in the store's key
\* order, than the key it generated before, whatever the number of chunks
\* and however the clock moves on (also when more than 4096 keys are
\* generated within one clock reading).
C13_IndexesIncrease ==
    [][\A p \in Slots :
          ( /\ procs[p].putKey # <<>>
            /\ procs'[p].seq.counter = procs[p].seq.counter + 1 )
          => LexLess(procs[p].putKey, procs'[p].putKey)]_vars

\* the number of entries of stream K in a store
EntryCount(store, K) == Cardinality({k \in DOMAIN store : OfStream(k, K)})

\* C14: a delete is all-or-nothing: while it runs and after it called back,
\* either every entry of the key that was in the store at the call is still
\* there or none is, and when it calls back with an error none has been
\* removed.
C14_DeleteAtomic ==
    [][\A p \in Slots :
          /\ (procs'[p].kind = "delete" /\ ~procs'[p].err) =>
                 EntryCount(db', procs'[p].key) \in {0, procs'[p].pre.entries}
          /\ (procs[p].kind = "delete" /\ ~procs[p].err /\ procs'[p].err) =>
                 EntryCount(db', procs[p].key) = procs[p].pre.entries]_vars

----------------------------------------------------------------------------
(* Properties of sessions, store streams and readers                       *)

\* every buffer a session has taken is empty
OnlyEmpty(inputs) == \A i \in DOMAIN inputs : inputs[i] = <<>>

\* C15: an empty buffer given to a session changes nothing but the fact
\* that it was given: no put is issued, no index is generated, the store
\* stays as it is; and a session that was given only empty buffers has not
\* cleared its key (the clearing is still to come) and has left the store
\* as it found it.
C15_EmptyBuffer ==
    [][\A p \in Slots :
          /\ (procs'[p].empties /\ ~procs[p].empties) =>
                 /\ db' = db
                 /\ procs'[p] = [procs[p] EXCEPT !.empties = TRUE]
          /\ ( /\ procs'[p].kind \in {"write", "store"}
               /\ procs'[p].pc \in {"ready", "finished"}
               /\ OnlyEmpty(procs'[p].inputs) )
             => /\ ~procs'[p].wrote
                /\ db' = procs'[p].db0
                /\ procs'[p].pc = "ready" =>
                       procs'[p].initial /\ procs'[p].seq = NewSeqIndex]_vars

C15_Witness ==
    \E p \in Slots :
        /\ procs[p].kind = "write"
        /\ procs[p].pc = "finished"
        /\ procs[p].empties
        /\ procs[p].inputs = <<>>
        /\ procs[p].db0 # <<>>
        /\ db = procs[p].db0

\* C16: the store stream passes a chunk downstream only when the store
\* acknowledges the put of that chunk, and only if no request of the session
\* before it (clearing, existence record, earlier puts) has failed; when a
\* request fails, the callback of the transform gets the error and nothing
\* is passed downstream.
C16_EmitAfterAck ==
    [][\A p \in Slots :
          /\ ( /\ procs'[p].kind = "store"
               /\ procs[p].kind = "store"
               /\ Len(procs'[p].out) > Len(procs[p].out) )
             => /\ procs[p].pc = "put_chunk"
                /\ Has(db', procs[p].putKey)
                /\ db'[procs[p].putKey] = Bin(procs[p].chunk)
                /\ procs'[p].out = Append(procs[p].out, procs[p].chunk)
                /\ ~procs'[p].err
                /\ ~procs'[p].dropped
          /\ ( /\ procs[p].kind = "store"
               /\ ~procs[p].err
               /\ procs'[p].err )
             => /\ procs'[p].out = procs[p].out
                /\ procs'[p].pc = "failed"]_vars

\* C17: a store error during a session is passed to the callback of the
\* write in progress (none is dropped); the session then has failed, no put
\* of it is outstanding and the store is as it was before the error.
C17_SessionError ==
    [][\A p \in Slots :
          procs'[p].kind \in {"write", "store"} =>
              /\ ~procs'[p].dropped
              /\ (procs[p].kind = procs'[p].kind /\ ~procs[p].err
                      /\ procs'[p].err)
                 => /\ procs'[p].pc = "failed"
                    /\ procs'[p].putKey = <<>>
                    /\ db' = db]_vars

\* the keys of store strictly between the bounds lo and hi
Between(store, lo, hi) ==
    {k \in DOMAIN store : LexLess(lo, k) /\ LexLess(k, hi)}

\* the number of keys of S below k
Rank(S, k) == Cardinality({j \in S : LexLess(j, k)})

\* the keys a reader created with startIndex from is to deliver: with the
\* option, the keys above K + ' ' + from and below K + ' :'; without it,
\* the chunks of K
ToRead(store, K, from) ==
    IF from = <<>>
    THEN {k \in DOMAIN store : IsChunkKey(k, K)}
    ELSE Between(store, K \o <<Space>> \o from, High(K))

\* C18: the i-th payload a reader has emitted is the payload of the i-th
\* smallest key of its range, and a reader that has ended has emitted one
\* payload per key of the range; the range of a reader without startIndex
\* is the chunks of K, without the records K + ' #' and K + ' *'.
C18_ReadRange ==
    \A p \in Slots :
        procs[p].kind = "read" =>
            LET range == ToRead(procs[p].db0, procs[p].key, procs[p].from)
            IN  /\ \A i \in 1..Len(procs[p].got) :
                       \E k \in range :
                           /\ Rank(range, k) = i - 1
                           /\ procs[p].got[i] = ValueBytes(procs[p].db0[k])
                /\ procs[p].pc = "ended"
                   => Len(procs[p].got) = Cardinality(range)

\* a reader with a start index has ended; it has emitted a chunk and has
\* left out a chunk and the metadata of its stream
C18_Witness ==
    \E p \in Slots :
        /\ procs[p].kind = "read"
        /\ procs[p].pc = "ended"
        /\ procs[p].from # <<>>
        /\ procs[p].got # <<>>
        /\ Len(procs[p].got) < procs[p].pre.chunks
        /\ procs[p].key \o <<Space, Star>> \in DOMAIN procs[p].db0

\* C19: the key stream of a new reader is paused; it is paused after a push
\* that reported that the consumer is not ready; while it is paused nothing
\* is delivered and the stream does not end, and it flows again only when
\* the consumer asks for data (_read).
C19_Backpressure ==
    [][\A p \in Slots :
          /\ ( /\ procs'[p].kind = "read"
               /\ procs'[p].pc \in {"paused", "flowing"}
               /\ ~(procs[p].kind = "read"
                       /\ procs[p].pc \in {"paused", "flowing"}) )
             => /\ procs'[p].pc = "paused"
                /\ procs'[p].got = <<>>
          /\ ( /\ procs'[p].kind = "read"
               /\ procs'[p].pc \in {"paused", "flowing"}
               /\ ~procs'[p].ready )
             => procs'[p].pc = "paused"
          /\ ( /\ procs[p].kind = "read"
               /\ procs[p].pc = "paused" )
             => /\ procs'[p].got = procs[p].got
                /\ procs'[p].iter = procs[p].iter
                /\ procs'[p].pc \in {"paused", "flowing", "failed"}
                /\ procs'[p].pc = "flowing" => procs'[p].ready]_vars

\* a reader that was paused by a push in the middle of its range
C19_Witness ==
    \E p \in Slots :
        /\ procs[p].kind = "read"
        /\ procs[p].pc = "paused"
        /\ ~procs[p].ready
        /\ procs[p].got # <<>>
        /\ procs[p].iter # <<>>

\* C20: a reader ends only when it has emitted the payload of every key of
\* its range, the end adds no chunk and no error, and a reader that has
\* ended does not end again; a reader whose consumer has asked for data and
\* that has emitted its whole range (none, for a stream without chunks) can
\* end.
C20_EndOnce ==
    [][\A p \in Slots :
          LET range == ToRead(procs[p].db0, procs[p].key, procs[p].from)
          IN  /\ ( /\ procs'[p].kind = "read"
                   /\ procs'[p].pc = "ended"
                   /\ procs'[p] # procs[p] )
                 => /\ procs[p].kind = "read"
                    /\ procs[p].pc = "flowing"
                    /\ Len(procs[p].got) = Cardinality(range)
                    /\ procs'[p].got = procs[p].got
                    /\ procs'[p].db0 = procs[p].db0
                    /\ ~procs'[p].err
              /\ ( /\ procs[p].kind = "read"
                   /\ procs[p].pc = "flowing"
                   /\ Len(procs[p].got) = Cardinality(range) )
                 => ENABLED ReadEnd(p)]_vars

\* a reader has ended after two chunks
C20_Witness ==
    \E p \in Slots :
        /\ procs[p].kind = "read"
        /\ procs[p].pc = "ended"
        /\ Len(procs[p].got) = 2
        /\ ~procs[p].err

\* a reader of a stream without chunks has ended
C20_EmptyEnded ==
    \E p \in Slots :
        /\ procs[p].kind = "read"
        /\ procs[p].pc = "ended"
        /\ procs[p].got = <<>>
        /\ procs[p].pre.chunks = 0

----------------------------------------------------------------------------
(* Readers that are destroyed before the end of their range               *)

\* destroy() of a reader (stream.Readable): LevelReadStream has no _destroy
\* and no 'close' handler, so its key stream is left as it is; a destroyed
\* reader is not asked for data again (ReadResume)
ReadDestroy(p) ==
    /\ procs[p].kind = "read"
    /\ procs[p].pc \in {"paused", "flowing"}
    /\ ~procs[p].closed
    /\ procs' = [procs EXCEPT ![p].closed = TRUE]
    /\ UNCHANGED <<db, now, serial, hist>>

NextClose ==
    \/ \E K \in DOMAIN hist :
           \/ StartWrite(K, "write", FALSE)
           \/ \E startIndex \in StartIndexes : StartRead(K, startIndex)
    \/ \E p \in Slots :
           \/ \E b \in WriteInputs(Len(procs[p].inputs) + 1) : WriteBuf(p, b)
           \/ DeleteNext(p)
           \/ DeleteEnd(p)
           \/ DeleteBatch(p)
           \/ WritePutSys(p)
           \/ WritePutChunk(p)
           \/ WriteEnd(p)
           \/ ReadResume(p)
           \/ \E ready \in BOOLEAN : ReadData(p, ready)
           \/ ReadEnd(p)
           \/ ReadDestroy(p)

SpecClose == Init /\ [][NextClose]_vars

\* C21: once a reader was destroyed before the end of its range, its key
\* stream is released and no further entry is read from the store for it.
C21_Cancel ==
    [][\A p \in Slots :
          ( /\ procs[p].kind = "read"
            /\ procs[p].closed
            /\ procs[p].pc \in {"paused", "flowing"} )
          => /\ procs'[p].iter = procs[p].iter
             /\ procs'[p].pc = "released"]_vars

----------------------------------------------------------------------------
(* streamPrepend on streams written at any clock reading                   *)

InitPre ==
    /\ db = <<>>
    /\ now \in 1..ClockStart
    /\ serial = TRUE
    /\ procs = [p \in Slots |-> NoProc]
    /\ hist = [K \in StreamKeys |-> NoHist]

NextPre ==
    \/ \E K \in DOMAIN hist :
           \/ StartWrite(K, "write", FALSE)
           \/ StartPrepend(K, Buf(<<1>>))
    \/ \E p \in Slots :
           \/ \E b \in WriteInputs(Len(procs[p].inputs) + 1) : WriteBuf(p, b)
           \/ DeleteNext(p)
           \/ DeleteEnd(p)
           \/ DeleteBatch(p)
           \/ WritePutSys(p)
           \/ WritePutChunk(p)
           \/ WriteEnd(p)
           \/ PrependNext(p)
           \/ PrependEnd(p)
           \/ PrependPut(p)

SpecPre == InitPre /\ [][NextPre]_vars

\* C22: the key a prepend puts its chunk under is above K + ' /' and below
\* the first chunk key it found, is not a key of the store, and the put
\* leaves every entry of the store as it was.
C22_PrependKeyBelow ==
    [][\A p \in Slots :
          ( /\ procs[p].kind = "prepend"
            /\ procs[p].pc = "pre_put"
            /\ procs'[p].pc = "done" )
          => /\ LexLess(ChunkLow(procs[p].key), procs[p].putKey)
             /\ LexLess(procs[p].putKey, procs[p].found)
             /\ ~Has(db, procs[p].putKey)
             /\ \A k \in DOMAIN db : Has(db', k) /\ db'[k] = db[k]]_vars

----------------------------------------------------------------------------
(* Calls that are issued without waiting for each other                    *)

\* the buffers of the prepends
ConcBufs == {Buf(<<1>>), Buf(<<2>>)}

InitConc ==
    /\ db = <<>>
    /\ now = ClockStart
    /\ serial = FALSE
    /\ procs = [p \in Slots |-> NoProc]
    /\ hist = [K \in StreamKeys |-> NoHist]

\* no call or stream object is under way
Alone == \A p \in Slots : Free(p)

\* no session is under way
NoSession == \A p \in Slots : procs[p].kind \in {"write", "store"} => Free(p)

\* nothing but prepends is under way
OnlyPrepends == \A p \in Slots : procs[p].kind = "prepend" \/ Free(p)

\* the caller may issue one more prepend on K
MorePrepends(K) ==
    /\ hist[K].known
    /\ Len(hist[K].pres)
           + Cardinality({p \in Slots : procs[p].kind = "prepend"
                                            /\ procs[p].key = K
                                            /\ ~Free(p)}) < MaxPrepends

\* the caller waits for the end of a session and of a reader, and does not
\* wait for the callback of a prepend before it issues the next prepend
NextConc ==
    \/ \E K \in DOMAIN hist :
           \/ Alone /\ StartWrite(K, "write", FALSE)
           \/ /\ OnlyPrepends
              /\ MorePrepends(K)
              /\ \E v \in ConcBufs : StartPrepend(K, v)
           \/ Alone /\ StartRead(K, <<>>)
    \/ \E p \in Slots :
           \/ WriteBuf(p, <<Len(procs[p].inputs) + 1>>)
           \/ DeleteNext(p)
           \/ DeleteEnd(p)
           \/ DeleteBatch(p)
           \/ WritePutSys(p)
           \/ WritePutChunk(p)
           \/ WriteEnd(p)
           \/ PrependNext(p)
           \/ PrependEnd(p)
           \/ PrependPut(p)
           \/ ReadResume(p)
           \/ ReadData(p, TRUE)
           \/ ReadEnd(p)

SpecConc == InitConc /\ [][NextConc]_vars

\* sessions one after the other; deletes and setMeta calls at any time
NextMeta ==
    \/ \E K \in DOMAIN hist :
           \/ NoSession /\ StartWrite(K, "write", FALSE)
           \/ StartSetMeta(K, [a |-> 1])
           \/ StartDelete(K)
    \/ \E p \in Slots :
           \/ \E b \in WriteInputs(Len(procs[p].inputs) + 1) : WriteBuf(p, b)
           \/ DeleteNext(p)
           \/ DeleteEnd(p)
           \/ DeleteBatch(p)
           \/ WritePutSys(p)
           \/ WritePutChunk(p)
           \/ WriteEnd(p)
           \/ SetMetaGet(p)
           \/ SetMetaPut(p)

SpecMeta == InitConc /\ [][NextMeta]_vars

\* C23: a prepend whose put is served calls back true and its chunk is the
\* value of its key; a prepend of the same stream that found the same first
\* key and whose put is outstanding puts under the same key, so that the
\* store keeps one chunk for the two.
C23_PrependsCollide ==
    [][\A p \in Slots :
          ( /\ procs[p].kind = "prepend"
            /\ procs[p].pc = "pre_put"
            /\ procs'[p].pc = "done" )
          => /\ procs'[p].ok
             /\ db'[procs[p].putKey] = Bin(procs[p].chunk)
             /\ \A q \in Slots \ {p} :
                    ( /\ procs[q].kind = "prepend"
                      /\ procs[q].pc = "pre_put"
                      /\ procs[q].key = procs[p].key
                      /\ procs[q].found = procs[p].found )
                    => /\ procs[q].putKey = procs[p].putKey
                       /\ DOMAIN Put(db', procs[q].putKey,
                                     Bin(procs[q].chunk)) = DOMAIN db']_vars

\* two prepends of different buffers were under way at the same time, both
\* called back true, and a reader created afterwards has ended with only
\* one more chunk than the session wrote
C23_Witness ==
    \E p \in Slots :
        /\ procs[p].kind = "read"
        /\ procs[p].pc = "ended"
        /\ procs[p].pre.h.known
        /\ Len(procs[p].pre.h.pres) = 2
        /\ procs[p].pre.h.pres[1] # procs[p].pre.h.pres[2]
        /\ procs[p].pre.h.base # <<>>
        /\ Len(procs[p].got) = Len(procs[p].pre.h.base) + 1
        /\ procs[p].got[1] = procs[p].pre.h.pres[2]

\* C24: a prepend of a value that is neither a string nor a buffer has
\* returned without a callback (the error is scheduled), or has called back
\* with an error; it has created no iterator and issued no put, and the
\* store is as the call found it.
C24_PrependRejects ==
    \A p \in Slots :
        (procs[p].kind = "prepend" /\ procs[p].data.t = "other")
        => /\ procs[p].pc \in {"pre_reject", "done"}
           /\ procs[p].found = <<>>
           /\ procs[p].putKey = <<>>
           /\ ~procs[p].wrote
           /\ db = procs[p].db0
           /\ procs[p].pc = "pre_reject" => ~procs[p].err
           /\ procs[p].pc = "done" => procs[p].err /\ ~procs[p].ok

\* a prepend of a number on a stream that holds chunks has called back
C24_Witness ==
    \E p \in Slots :
        /\ procs[p].kind = "prepend"
        /\ procs[p].data.t = "other"
        /\ procs[p].pc = "done"
        /\ procs[p].err
        /\ procs[p].pre.chunks > 0

\* C25: no step of a session that was opened with the append option removes
\* or changes an entry of the stream of the session.
C25_AppendKeeps ==
    [][\A p \in Slots :
          ( /\ procs[p].kind \in {"write", "store"}
            /\ procs[p].append
            /\ procs'[p].kind = procs[p].kind
            /\ procs'[p].append )
          => \A k \in DOMAIN db :
                 OfStream(k, procs[p].key) => Has(db', k) /\ db'[k] = db[k]]_vars

\* C26: in every state and for every key K, the store holds the user record
\* K + ' *' only if it holds the existence record K + ' #'.
C26_MetaNeedsStream ==
    \A K \in DOMAIN hist : Has(db, UserKey(K)) => Has(db, SysKey(K))

====
